---- MODULE Spec2Model ----
(***************************************************************************)
(* Model of the transcript-to-SRT pipeline of src/utils/srt_converter.py.  *)
(*                                                                         *)
(* Texts are TLA+ strings and every regular expression of the source is    *)
(* evaluated character by character, so that the interaction between the   *)
(* patterns (a short MM:SS,mmm pattern matching inside HH:MM:SS,mmm, \s    *)
(* matching a newline, ...) is part of the model.  The Korean literals of  *)
(* the source are written in Revised Romanization, since a module is       *)
(* ASCII: they keep their words, spaces and full stops, and matching them  *)
(* ignoring case is matching them exactly.                                 *)
(***************************************************************************)
EXTENDS Integers, Sequences, FiniteSets, TLC

(***************************************************************************)
(* Bounds of the model (not program constants).                            *)
(***************************************************************************)
MaxLines == 2
MaxRounds == 1
MaxCallers == 2
MaxFedBack == 200
MaxRetries == 4

(***************************************************************************)
(* Characters and the str methods used by the source.                      *)
(***************************************************************************)
Digits == {"0", "1", "2", "3", "4", "5", "6", "7", "8", "9"}

WhiteSpace == {" ", "\n", "\t", "\r"}

NL == "\n"

At(s, i) == IF i >= 1 /\ i <= Len(s) THEN SubSeq(s, i, i) ELSE ""

IsDigit(c) == c \in Digits

IsSpace(c) == c \in WhiteSpace

Slice(s, i, j) == IF i > j \/ i > Len(s) THEN ""
                  ELSE SubSeq(s, i, IF j > Len(s) THEN Len(s) ELSE j)

From(s, i) == Slice(s, i, Len(s))

DigitVal(c) ==
    CASE c = "0" -> 0 [] c = "1" -> 1 [] c = "2" -> 2 [] c = "3" -> 3
      [] c = "4" -> 4 [] c = "5" -> 5 [] c = "6" -> 6 [] c = "7" -> 7
      [] c = "8" -> 8 [] c = "9" -> 9

DigitChar(n) ==
    CASE n = 0 -> "0" [] n = 1 -> "1" [] n = 2 -> "2" [] n = 3 -> "3"
      [] n = 4 -> "4" [] n = 5 -> "5" [] n = 6 -> "6" [] n = 7 -> "7"
      [] n = 8 -> "8" [] n = 9 -> "9"

\* str(i) for i >= 0
RECURSIVE str(_)
str(n) == IF n < 10 THEN DigitChar(n) ELSE str(n \div 10) \o DigitChar(n % 10)

\* least k in lo..hi with P(k), 0 if there is none: where a left-to-right
\* scan stops.  P is evaluated at every index, which needs no recursion.
First(P(_), lo, hi) ==
    LET found == {n \in lo..hi : P(n)}
    IN  IF found = {} THEN 0 ELSE CHOOSE n \in found : \A m \in found : n <= m

\* greatest k in lo..hi with P(k), 0 if there is none
Last(P(_), lo, hi) ==
    LET found == {n \in lo..hi : P(n)}
    IN  IF found = {} THEN 0 ELSE CHOOSE n \in found : \A m \in found : n >= m

\* v bound to the name that F gives it: the assignment of a local variable,
\* evaluated once however often the name is used
Let(v, F(_)) == CASE v = v -> F(v)

\* the state after n rounds of a loop whose body is Step, starting from
\* state.  The rounds are evaluated by halving, and the state is evaluated
\* before the rounds that start from it: a long loop needs no deep recursion.
RECURSIVE Repeat(_, _, _)
Repeat(Step(_), n, state) ==
    CASE state = state /\ n <= 0 -> state
      [] n = 1 -> Step(state)
      [] OTHER -> Repeat(Step, n - n \div 2, Repeat(Step, n \div 2, state))

\* the index k that a scan found, or the index past the end of s when it
\* found none
OrPastEnd(s, k) == IF k = 0 THEN Len(s) + 1 ELSE k

\* first index >= i whose character is not white space (past the end if none)
SkipSpace(s, i) ==
    IF i > Len(s) THEN i
    ELSE OrPastEnd(s, First(LAMBDA n : ~IsSpace(At(s, n)), i, Len(s)))

\* last index <= j whose character is not white space (0 if none)
SkipSpaceBack(s, j) == Last(LAMBDA n : ~IsSpace(At(s, n)), 1, j)

\* first index >= i whose character is not a digit (past the end if none)
SkipDigits(s, i) ==
    IF i > Len(s) THEN i
    ELSE OrPastEnd(s, First(LAMBDA n : ~IsDigit(At(s, n)), i, Len(s)))

\* str.strip()
strip(s) == Slice(s, SkipSpace(s, 1), SkipSpaceBack(s, Len(s)))

\* str.isdigit()
isdigit(s) == s # "" /\ SkipDigits(s, 1) = Len(s) + 1

\* str.find(c, start) for a one-character c, 1-based; 0 when absent
find(s, c, i) == First(LAMBDA n : At(s, n) = c, i, Len(s))

\* str.split on newlines
Newlines(s) == {n \in 1..Len(s) : At(s, n) = NL}

\* the k-th smallest number of the set S
Nth(S, k) == CHOOSE p \in S : Cardinality({q \in S : q <= p}) = k

split(s) ==
    Let(Newlines(s), LAMBDA cuts :
        [k \in 1..Cardinality(cuts) + 1 |->
            Slice(s, Nth(cuts \cup {0}, k) + 1, Nth(cuts \cup {Len(s) + 1}, k) - 1)])

\* join of lines with newlines
join(lines) ==
    Repeat(LAMBDA st : [i    |-> st.i + 1,
                        text |-> IF st.i = 1 THEN lines[1]
                                 ELSE st.text \o NL \o lines[st.i]],
           Len(lines), [i |-> 1, text |-> ""]).text

\* first index >= i at which the literal lit occurs in s (0 if none)
FindLit(s, lit, i) ==
    First(LAMBDA n : SubSeq(s, n, n + Len(lit) - 1) = lit, i, Len(s) - Len(lit) + 1)

\* re.sub(lit, "", s) for a literal pattern
\* one replacement of re.sub: st.pos is where the scan goes on, st.out the
\* text built so far; pos is 0 when the scan has reached the end
RemoveLitBody(s, lit, st) ==
    IF st.pos = 0 THEN st
    ELSE Let(FindLit(s, lit, st.pos), LAMBDA k :
             IF k = 0 THEN [pos |-> 0, out |-> st.out \o From(s, st.pos)]
             ELSE [pos |-> k + Len(lit), out |-> st.out \o Slice(s, st.pos, k - 1)])

RemoveLit(s, lit) ==
    Repeat(LAMBDA st : RemoveLitBody(s, lit, st), Len(s) \div Len(lit) + 1,
           [pos |-> 1, out |-> ""]).out

(***************************************************************************)
(* The patterns of SRTConverter.__init__.  A template is matched character *)
(* by character: "d" stands for \d, every other character for itself.      *)
(***************************************************************************)
\* The attributes of the SRTConverter instance that the callers share.  The
\* methods read the patterns from the instance at the time they use them.
VARIABLE self

timestamp_pattern == self.timestamp_pattern

invalid_timestamp_pattern == self.invalid_timestamp_pattern

\* the template tpl matches s at index i
MatchAt(s, i, tpl) ==
    /\ i >= 1
    /\ i + Len(tpl) - 1 <= Len(s)
    /\ \A k \in 1..Len(tpl) :
          IF At(tpl, k) = "d" THEN IsDigit(At(s, i + k - 1))
          ELSE At(s, i + k - 1) = At(tpl, k)

\* re.search(tpl, s) from index i: index of the leftmost match, 0 if none
SearchTpl(s, tpl, i) ==
    First(LAMBDA n : MatchAt(s, n, tpl), i, Len(s) - Len(tpl) + 1)

\* timestamp_range_pattern matched at index i: the index just after the
\* match, 0 if it does not match.  \s* is greedy and is followed by "-" or
\* by a digit, so there is nothing to backtrack into.
RangeEndAt(s, i) ==
    IF ~MatchAt(s, i, timestamp_pattern) THEN 0
    ELSE Let(SkipSpace(s, i + 12), LAMBDA j :
             IF Slice(s, j, j + 2) # "-->" THEN 0
             ELSE Let(SkipSpace(s, j + 3), LAMBDA k :
                      IF MatchAt(s, k, timestamp_pattern) THEN k + 12 ELSE 0))

\* group(2) of a timestamp_range_pattern match at index i
RangeGroup2(s, i) == Let(RangeEndAt(s, i), LAMBDA e : Slice(s, e - 12, e - 1))

\* re.search(timestamp_range_pattern, s) from index i
SearchRange(s, i) == First(LAMBDA n : RangeEndAt(s, n) # 0, i, Len(s))

HasTimestamp(s) == SearchTpl(s, timestamp_pattern, 1) # 0

HasRange(s) == SearchRange(s, 1) # 0

\* the literals of ai_greeting_patterns, romanized
GREET1_HEAD == "algetseumnida."
GREET1_TAIL == "jamageul jegonghae deurimnida."
GREET2_HEAD == "saengseongdoen jamagi maeume deusyeosseumyeon"
GREET3 == "i dongyeongsangui jamagimnida."
GREET4 == "hangeul jamageul saengseonghaetseumnida."
GREET5_A == "chuga yocheong"
GREET5_B == "sahangi isseusimyeon"
GREET6 == "sujeongi piryohageona"

StartsWith(s, lit) == Slice(s, 1, Len(lit)) = lit

\* last index at which lit occurs in s at or after index i (0 if none)
FindLastLit(s, lit, i) ==
    Last(LAMBDA n : SubSeq(s, n, n + Len(lit) - 1) = lit, i, Len(s) - Len(lit) + 1)

\* The six substitutions re.sub(pattern, "", text, IGNORECASE | MULTILINE),
\* on one line: "." matches no newline and "^" matches at every line start,
\* so each substitution acts on every line separately.
Greet1(line) ==
    Let(FindLastLit(line, GREET1_TAIL, Len(GREET1_HEAD) + 1), LAMBDA k :
        IF StartsWith(line, GREET1_HEAD) /\ k # 0
        THEN From(line, k + Len(GREET1_TAIL)) ELSE line)

Greet2(line) == IF StartsWith(line, GREET2_HEAD) THEN "" ELSE line

Greet3(line) == IF StartsWith(line, GREET3) THEN From(line, Len(GREET3) + 1) ELSE line

Greet4(line) == IF StartsWith(line, GREET4) THEN From(line, Len(GREET4) + 1) ELSE line

Greet5(line) ==
    Let(FindLit(line, GREET5_A, 1), LAMBDA k :
        IF k # 0 /\ FindLit(line, GREET5_B, k + Len(GREET5_A)) # 0
        THEN "" ELSE line)

Greet6(line) == IF FindLit(line, GREET6, 1) # 0 THEN "" ELSE line

RemoveGreetingsLine(line) ==
    Let(Greet1(line), LAMBDA g1 :
    Let(Greet2(g1), LAMBDA g2 :
    Let(Greet3(g2), LAMBDA g3 :
    Let(Greet4(g3), LAMBDA g4 :
    Let(Greet5(g4), LAMBDA g5 : Greet6(g5))))))

RemoveGreetings(text) ==
    Let(split(text), LAMBDA lines :
        join([i \in 1..Len(lines) |-> RemoveGreetingsLine(lines[i])]))

\* A backtick cannot be written in a string of this language: the tilde
\* stands for it, and is used for nothing else.
BACKTICK == "~"

FENCE == BACKTICK \o BACKTICK \o BACKTICK

\* the attributes as __init__ sets them
PatternCatalog ==
    [timestamp_pattern         |-> "dd:dd:dd,ddd",
     invalid_timestamp_pattern |-> "dd:dd,ddd",
     ai_greeting_patterns      |-> <<GREET1_HEAD, GREET1_TAIL, GREET2_HEAD, GREET3, GREET4,
                                     GREET5_A, GREET5_B, GREET6>>,
     markdown_patterns         |-> <<FENCE \o "srt", FENCE, BACKTICK>>]

\* markdown_patterns: the fence with its srt tag, the bare fence, then runs
\* of one to three backticks, removed in this order; the last substitution
\* removes every remaining backtick
RemoveMarkdown(text) ==
    Let(RemoveLit(text, FENCE \o "srt"), LAMBDA untagged :
    Let(RemoveLit(untagged, FENCE), LAMBDA unfenced : RemoveLit(unfenced, BACKTICK)))

\* first index >= i whose character is not a newline
SkipNewlines(s, i) ==
    IF i > Len(s) THEN i
    ELSE OrPastEnd(s, First(LAMBDA n : At(s, n) # NL, i, Len(s)))

\* re.sub of runs of three or more newlines by two newlines
CollapseBody(s, st) ==
    IF st.pos = 0 THEN st
    ELSE Let(find(s, NL, st.pos), LAMBDA k :
             IF k = 0 THEN [pos |-> 0, out |-> st.out \o From(s, st.pos)]
             ELSE Let(SkipNewlines(s, k), LAMBDA e :
                      [pos |-> e,
                       out |-> st.out \o Slice(s, st.pos, k - 1)
                               \o (IF e - k >= 3 THEN NL \o NL ELSE Slice(s, k, e - 1))]))

CollapseNewlines(s) ==
    Repeat(LAMBDA st : CollapseBody(s, st), Cardinality(Newlines(s)) + 1,
           [pos |-> 1, out |-> ""]).out

(***************************************************************************)
(* Results of code that may raise: raised is TRUE when an exception        *)
(* leaves the function, and value is what it returns otherwise.            *)
(***************************************************************************)
Return(v) == [raised |-> FALSE, value |-> v]

Raise == [raised |-> TRUE, value |-> ""]

Two(n) == DigitChar((n \div 10) % 10) \o DigitChar(n % 10)

Num2(s, i) == 10 * DigitVal(At(s, i)) + DigitVal(At(s, i + 1))

\* mutant: fields of 60 and more are carried over instead of refused
_add_seconds_to_timestamp_carries(timestamp, seconds) ==
    Let((Num2(timestamp, 1) * 3600 + Num2(timestamp, 4) * 60
         + Num2(timestamp, 7) + seconds) % 86400, LAMBDA t :
        Return(Two(t \div 3600) \o ":" \o Two((t \div 60) % 60) \o ":"
               \o Two(t % 60) \o Slice(timestamp, 9, 12)))

\* datetime.strptime(timestamp, "%H:%M:%S,%f") raises ValueError unless the
\* hour is at most 23 and the minute and the second are at most 59; strftime
\* prints the time of day, so the hour wraps at 24; the first three of the
\* six digits of %f are the milliseconds of the input.
_add_seconds_to_timestamp(timestamp, seconds) ==
    IF Num2(timestamp, 1) > 23 \/ Num2(timestamp, 4) > 59 \/ Num2(timestamp, 7) > 59
    THEN Raise
    ELSE Let((Num2(timestamp, 1) * 3600 + Num2(timestamp, 4) * 60
              + Num2(timestamp, 7) + seconds) % 86400, LAMBDA t :
             Return(Two(t \div 3600) \o ":" \o Two((t \div 60) % 60) \o ":"
                    \o Two(t % 60) \o Slice(timestamp, 9, 12)))

\* the while loop of _clean_transcription_text over lines, from index i
\* one round of the while loop: st.i is the index i, st.cleaned_lines the list
CleanBody(lines, st) ==
    IF st.i > Len(lines) THEN st
    ELSE Let(strip(lines[st.i]), LAMBDA line :
             IF isdigit(line) THEN [st EXCEPT !.i = @ + 1]
             ELSE IF HasRange(line)
                  THEN [i |-> st.i + 1, cleaned_lines |-> Append(st.cleaned_lines, line)]
             ELSE IF st.i + 1 <= Len(lines) /\ HasRange(strip(lines[st.i + 1]))
                  THEN [i |-> st.i + 2,
                        cleaned_lines |-> Append(st.cleaned_lines, strip(lines[st.i + 1]))]
             ELSE IF line # ""
                  THEN [i |-> st.i + 1, cleaned_lines |-> Append(st.cleaned_lines, line)]
             ELSE [st EXCEPT !.i = @ + 1])

CleanLoop(lines, i) ==
    Repeat(LAMBDA st : CleanBody(lines, st), Len(lines) - i + 1,
           [i |-> i, cleaned_lines |-> <<>>]).cleaned_lines

\* the text before the loop: greetings, markdown and newline runs removed
StripNoise(text) ==
    Let(RemoveGreetings(text), LAMBDA greeted :
    Let(RemoveMarkdown(greeted), LAMBDA unmarked : CollapseNewlines(unmarked)))

\* cleaned_text as joined from cleaned_lines, before the timestamp repair
CleanLines(text) ==
    Let(StripNoise(text), LAMBDA noiseless :
    Let(strip(noiseless), LAMBDA stripped :
    Let(split(stripped), LAMBDA lines :
    Let(CleanLoop(lines, 1), LAMBDA cleaned_lines : join(cleaned_lines)))))

\* re.sub(invalid_timestamp_pattern, fix_timestamp, cleaned_text): every
\* leftmost non-overlapping match of dd:dd,ddd gets "00:" in front of it
FixBody(s, st) ==
    IF st.pos = 0 THEN st
    ELSE Let(SearchTpl(s, invalid_timestamp_pattern, st.pos), LAMBDA k :
             IF k = 0 THEN [pos |-> 0, out |-> st.out \o From(s, st.pos)]
             ELSE [pos |-> k + 9,
                   out |-> st.out \o Slice(s, st.pos, k - 1) \o "00:" \o Slice(s, k, k + 8)])

fix_timestamp(s) ==
    Repeat(LAMBDA st : FixBody(s, st), Len(s) \div 9 + 1, [pos |-> 1, out |-> ""]).out

\* mutant: the timestamp of a line is kept alone, without an end time
StructureLine_keeps_lone_timestamp(line) ==
    Let(SearchTpl(line, timestamp_pattern, 1), LAMBDA k :
        IF k # 0
        THEN Let(Slice(line, k, k + 11), LAMBDA start :
             Let(_add_seconds_to_timestamp(start, 10), LAMBDA end :
             Let(strip(From(line, k + 12)), LAMBDA content :
                 IF end.raised THEN Raise
                 ELSE IF content # ""
                      THEN Return(<<start, content>>)
                      ELSE Return(<<>>))))
        ELSE IF strip(line) # "" THEN Return(<<strip(line)>>)
        ELSE Return(<<>>))

\* the body of the for loop that builds structured_lines, for one line
StructureLine(line) ==
    Let(SearchTpl(line, timestamp_pattern, 1), LAMBDA k :
        IF k # 0
        THEN Let(Slice(line, k, k + 11), LAMBDA start :
             Let(_add_seconds_to_timestamp(start, 10), LAMBDA end :
             Let(strip(From(line, k + 12)), LAMBDA content :
                 IF end.raised THEN Raise
                 ELSE IF content # ""
                      THEN Return(<<start \o " --> " \o end.value, content>>)
                      ELSE Return(<<>>))))
        ELSE IF strip(line) # "" THEN Return(<<strip(line)>>)
        ELSE Return(<<>>))

StructureBody(lines, st) ==
    IF st.raised THEN st
    ELSE Let(StructureLine(lines[st.i]), LAMBDA one :
             IF one.raised THEN [st EXCEPT !.raised = TRUE]
             ELSE [i |-> st.i + 1, raised |-> FALSE,
                   structured_lines |-> st.structured_lines \o one.value])

StructureLoop(lines, i) ==
    Let(Repeat(LAMBDA st : StructureBody(lines, st), Len(lines) - i + 1,
               [i |-> i, raised |-> FALSE, structured_lines |-> <<>>]), LAMBDA st :
        IF st.raised THEN Raise ELSE Return(st.structured_lines))

_clean_transcription_text(text) ==
    IF text = "" THEN Return("")
    ELSE Let(CleanLines(text), LAMBDA joined_lines :
         Let(fix_timestamp(joined_lines), LAMBDA cleaned_text :
             IF HasTimestamp(cleaned_text) /\ ~HasRange(cleaned_text)
             THEN Let(split(cleaned_text), LAMBDA lines :
                  Let(StructureLoop(lines, 1), LAMBDA structured_lines :
                      IF structured_lines.raised THEN Raise
                      ELSE Return(join(structured_lines.value))))
             ELSE Return(cleaned_text)))

(***************************************************************************)
(* Extraction.  A segment is a tuple <<start_time, end_time, text>>.       *)
(***************************************************************************)
\* the two placeholder captions of the source, romanized
NO_SUBTITLE_TEXT == "jamageul saengseonghal su eopseumnida. dareun bidioreul sidohaeboseyo."

CONVERSION_ERROR_TEXT == "jamak byeonhwan jung oryuga balsaenghaetseumnida."

\* mutant: the sentinel cue lasts five seconds instead of ten
DEFAULT_SEGMENT_five_seconds == <<"00:00:00,000", "00:00:05,000", NO_SUBTITLE_TEXT>>

DEFAULT_SEGMENT == <<"00:00:00,000", "00:00:10,000", NO_SUBTITLE_TEXT>>

\* re.sub(timestamp_pattern, "", text)
RemoveTimestampsBody(s, st) ==
    IF st.pos = 0 THEN st
    ELSE Let(SearchTpl(s, timestamp_pattern, st.pos), LAMBDA k :
             IF k = 0 THEN [pos |-> 0, out |-> st.out \o From(s, st.pos)]
             ELSE [pos |-> k + 12, out |-> st.out \o Slice(s, st.pos, k - 1)])

RemoveTimestamps(s) ==
    Repeat(LAMBDA st : RemoveTimestampsBody(s, st), Len(s) \div 12 + 1,
           [pos |-> 1, out |-> ""]).out

\* mutant: a segment whose text holds a timestamp is kept as it is
KeptSegment_keeps_timestamps(seg) ==
    IF seg[3] # "" /\ ~isdigit(seg[3]) THEN <<seg>> ELSE <<>>

\* what the for loop of _extract_real_subtitles appends for one segment
KeptSegment(seg) ==
    IF seg[3] # "" /\ ~isdigit(seg[3]) /\ ~HasTimestamp(seg[3])
    THEN Let(IF HasTimestamp(seg[3]) THEN strip(RemoveTimestamps(seg[3])) ELSE seg[3],
             LAMBDA text : IF text # "" THEN <<(<<seg[1], seg[2], text>>)>> ELSE <<>>)
    ELSE <<>>

\* mutant: a cue equal to the cue kept just before it is left out
FilterSegments_drops_repeats(segments, i) ==
    Repeat(LAMBDA st : [i |-> st.i + 1,
                        cleaned_segments |->
                            IF st.cleaned_segments # <<>>
                               /\ KeptSegment(segments[st.i])
                                      = <<st.cleaned_segments[Len(st.cleaned_segments)]>>
                            THEN st.cleaned_segments
                            ELSE st.cleaned_segments \o KeptSegment(segments[st.i])],
           Len(segments) - i + 1, [i |-> i, cleaned_segments |-> <<>>]).cleaned_segments

FilterSegments(segments, i) ==
    Repeat(LAMBDA st : [i |-> st.i + 1,
                        cleaned_segments |-> st.cleaned_segments
                                             \o KeptSegment(segments[st.i])],
           Len(segments) - i + 1, [i |-> i, cleaned_segments |-> <<>>]).cleaned_segments

_extract_real_subtitles(segments) ==
    Let(FilterSegments(segments, 1), LAMBDA cleaned_segments :
        IF cleaned_segments = <<>> THEN <<DEFAULT_SEGMENT>> ELSE cleaned_segments)

\* the lookahead (?=\n\d+\s*\n|$) of the block pattern at index p: a newline,
\* digits, white space holding a newline; or the end of the text, or the
\* newline that ends the text
BlockLookahead(s, p) ==
    \/ p = Len(s) + 1
    \/ p = Len(s) /\ At(s, p) = NL
    \/ /\ At(s, p) = NL
       /\ IsDigit(At(s, p + 1))
       /\ Let(SkipDigits(s, p + 1), LAMBDA d :
              find(Slice(s, 1, SkipSpace(s, d) - 1), NL, d) # 0)

\* The block pattern of _parse_srt_format matched at index i:
\*   (\d+)\s*\n(ts)\s*-->\s*(ts)\s*\n([\s\S]*?)(?=\n\d+\s*\n|$)
\* \d+ and \s* are greedy: the white space after the number ends with the
\* newline just before the range, the white space after the range gives up
\* its last newline to \n, and group 4 is the shortest text up to an index
\* at which the lookahead holds.  stop is the index just after the match.
BlockMatchAt(s, i) ==
    Let(SkipDigits(s, i), LAMBDA d :
    Let(SkipSpace(s, d), LAMBDA w :
    Let(RangeEndAt(s, w), LAMBDA e :
    Let(Last(LAMBDA n : At(s, n) = NL, e, SkipSpace(s, e) - 1), LAMBDA n2 :
    Let(First(LAMBDA n : BlockLookahead(s, n), n2 + 1, Len(s) + 1), LAMBDA p :
        IF IsDigit(At(s, i)) /\ w > d /\ At(s, w - 1) = NL /\ e # 0 /\ n2 # 0
        THEN [ok |-> TRUE, start |-> Slice(s, w, w + 11), end |-> RangeGroup2(s, w),
              text |-> Slice(s, n2 + 1, p - 1), stop |-> p]
        ELSE [ok |-> FALSE, start |-> "", end |-> "", text |-> "", stop |-> 0])))))

\* re.finditer of the block pattern from index pos, with the filter of the
\* first loop of _parse_srt_format
BlockBody(s, st) ==
    IF st.pos = 0 THEN st
    ELSE Let(First(LAMBDA n : BlockMatchAt(s, n).ok, st.pos, Len(s)), LAMBDA i :
             IF i = 0 THEN [st EXCEPT !.pos = 0]
             ELSE Let(BlockMatchAt(s, i), LAMBDA m :
                  Let(strip(m.text), LAMBDA subtitle_text :
                      [pos |-> m.stop,
                       segments |-> IF ~HasTimestamp(subtitle_text) /\ subtitle_text # ""
                                       /\ ~isdigit(subtitle_text)
                                    THEN Append(st.segments,
                                                <<m.start, m.end, subtitle_text>>)
                                    ELSE st.segments])))

BlockSegments(s, pos) ==
    Repeat(LAMBDA st : BlockBody(s, st), Len(s) \div 27 + 1,
           [pos |-> pos, segments |-> <<>>]).segments

\* the second loop of _parse_srt_format: every range, with the text up to
\* the next range, or up to the end of the line when no range follows
FallbackBody(s, st) ==
    IF st.pos = 0 THEN st
    ELSE Let(SearchRange(s, st.pos), LAMBDA k :
             IF k = 0 THEN [st EXCEPT !.pos = 0]
             ELSE Let(RangeEndAt(s, k), LAMBDA e :
                  Let(SearchRange(s, e), LAMBDA next_ts :
                  Let(IF next_ts # 0 THEN next_ts ELSE OrPastEnd(s, find(s, NL, e)),
                      LAMBDA line_end :
                  Let(strip(Slice(s, e, line_end - 1)), LAMBDA subtitle_text :
                      [pos |-> e,
                       segments |-> IF subtitle_text # "" /\ ~isdigit(subtitle_text)
                                       /\ ~HasTimestamp(subtitle_text)
                                    THEN Append(st.segments,
                                                <<Slice(s, k, k + 11), RangeGroup2(s, k),
                                                  subtitle_text>>)
                                    ELSE st.segments])))))

FallbackSegments(s, pos) ==
    Repeat(LAMBDA st : FallbackBody(s, st), Len(s) \div 27 + 1,
           [pos |-> pos, segments |-> <<>>]).segments

_parse_srt_format(text) ==
    Let(BlockSegments(text, 1), LAMBDA blocks :
    Let(IF blocks = <<>> THEN FallbackSegments(text, 1) ELSE blocks, LAMBDA segments :
    Let(_extract_real_subtitles(segments), LAMBDA cleaned_segments :
        IF cleaned_segments = <<>> THEN <<DEFAULT_SEGMENT>> ELSE cleaned_segments)))

\* re.search(r'\d+\s*\n' + timestamp_range_pattern, text): a range at index
\* j, a newline just before it, and a digit before the white space that
\* ends with this newline
SrtHeadBefore(s, j) ==
    /\ RangeEndAt(s, j) # 0
    /\ At(s, j - 1) = NL
    /\ IsDigit(At(s, SkipSpaceBack(s, j - 1)))

LooksLikeSrt(s) == First(LAMBDA n : SrtHeadBefore(s, n), 2, Len(s)) # 0

\* mutant: a caption that is a number is kept
RangeBody_keeps_numbers(s, st) ==
    IF st.pos = 0 THEN st
    ELSE Let(SearchRange(s, st.pos), LAMBDA k :
             IF k = 0 THEN [st EXCEPT !.pos = 0]
             ELSE Let(RangeEndAt(s, k), LAMBDA e :
                  Let(OrPastEnd(s, find(s, NL, e)), LAMBDA line_end :
                  Let(strip(Slice(s, e, line_end - 1)), LAMBDA subtitle_text :
                      [pos |-> e,
                       segments |-> IF subtitle_text # ""
                                    THEN Append(st.segments,
                                                <<Slice(s, k, k + 11), RangeGroup2(s, k),
                                                  subtitle_text>>)
                                    ELSE st.segments]))))

\* the loop over re.finditer(timestamp_range_pattern, text) of
\* parse_transcription, from index pos
RangeBody(s, st) ==
    IF st.pos = 0 THEN st
    ELSE Let(SearchRange(s, st.pos), LAMBDA k :
             IF k = 0 THEN [st EXCEPT !.pos = 0]
             ELSE Let(RangeEndAt(s, k), LAMBDA e :
                  Let(OrPastEnd(s, find(s, NL, e)), LAMBDA line_end :
                  Let(strip(Slice(s, e, line_end - 1)), LAMBDA subtitle_text :
                      [pos |-> e,
                       segments |-> IF ~isdigit(subtitle_text) /\ subtitle_text # ""
                                    THEN Append(st.segments,
                                                <<Slice(s, k, k + 11), RangeGroup2(s, k),
                                                  subtitle_text>>)
                                    ELSE st.segments]))))

RangeSegments(s, pos) ==
    Repeat(LAMBDA st : RangeBody(s, st), Len(s) \div 27 + 1,
           [pos |-> pos, segments |-> <<>>]).segments

\* the loop over enumerate(lines) of the single-timestamp branch, from line
\* i on; current_time is "" for None.  The end time is read from lines[i],
\* the line being scanned, as the source does.
\* one round of the for loop over the lines: st.segments is the list,
\* st.current_time and st.current_text the pair that is open
SingleBody(lines, st) ==
    IF st.raised THEN st
    ELSE Let(lines[st.i], LAMBDA line :
         Let(SearchTpl(line, timestamp_pattern, 1), LAMBDA k :
             IF k # 0
             THEN Let(IF st.current_time # "" /\ st.current_text # ""
                      THEN Let(IF st.i < Len(lines) /\ HasTimestamp(lines[st.i])
                               THEN Return(Slice(lines[st.i], k, k + 11))
                               ELSE _add_seconds_to_timestamp(st.current_time, 10),
                               LAMBDA next_time :
                               IF next_time.raised THEN Raise
                               ELSE Return(Append(st.segments,
                                                  <<st.current_time, next_time.value,
                                                    strip(st.current_text)>>)))
                      ELSE Return(st.segments), LAMBDA appended :
                  IF appended.raised THEN [st EXCEPT !.raised = TRUE]
                  ELSE [i |-> st.i + 1, raised |-> FALSE, segments |-> appended.value,
                        current_time |-> Slice(line, k, k + 11),
                        current_text |-> strip(From(line, k + 12))])
             ELSE IF st.current_time # ""
                  THEN [st EXCEPT !.i = @ + 1, !.current_text = @ \o " " \o strip(line)]
                  ELSE [st EXCEPT !.i = @ + 1]))

SingleLoop(lines, i, current_time, current_text) ==
    Let(Repeat(LAMBDA st : SingleBody(lines, st), Len(lines) - i + 1,
               [i |-> i, raised |-> FALSE, segments |-> <<>>,
                current_time |-> current_time, current_text |-> current_text]),
        LAMBDA st :
        IF st.raised THEN Raise
        ELSE IF st.current_time # "" /\ st.current_text # ""
             THEN Let(_add_seconds_to_timestamp(st.current_time, 10), LAMBDA end_time :
                      IF end_time.raised THEN Raise
                      ELSE Return(Append(st.segments,
                                         <<st.current_time, end_time.value,
                                           strip(st.current_text)>>)))
             ELSE Return(st.segments))

\* the non-blank lines, stripped
NonBlankLines(lines, i) ==
    Repeat(LAMBDA st : [i |-> st.i + 1,
                        kept |-> IF strip(lines[st.i]) # ""
                                 THEN Append(st.kept, strip(lines[st.i])) ELSE st.kept],
           Len(lines) - i + 1, [i |-> i, kept |-> <<>>]).kept

\* mutant: current_time is not advanced, every cue starts where the first does
UnstructuredBody_no_advance(lines, st) ==
    IF st.raised THEN st
    ELSE Let(_add_seconds_to_timestamp(st.current_time, 10), LAMBDA end_time :
             IF end_time.raised THEN [st EXCEPT !.raised = TRUE]
             ELSE [i |-> st.i + 1, raised |-> FALSE, current_time |-> st.current_time,
                   segments |-> Append(st.segments,
                                       <<st.current_time, end_time.value, lines[st.i]>>)])

UnstructuredLoop_no_advance(lines, i, current_time) ==
    Let(Repeat(LAMBDA st : UnstructuredBody_no_advance(lines, st), Len(lines) - i + 1,
               [i |-> i, raised |-> FALSE, current_time |-> current_time,
                segments |-> <<>>]), LAMBDA st :
        IF st.raised THEN Raise ELSE Return(st.segments))

\* the loop that lays the lines out back to back, from line i on
\* one round of the for loop: the line becomes a cue of ten seconds that
\* starts where the previous one ended
UnstructuredBody(lines, st) ==
    IF st.raised THEN st
    ELSE Let(_add_seconds_to_timestamp(st.current_time, 10), LAMBDA end_time :
             IF end_time.raised THEN [st EXCEPT !.raised = TRUE]
             ELSE [i |-> st.i + 1, raised |-> FALSE, current_time |-> end_time.value,
                   segments |-> Append(st.segments,
                                       <<st.current_time, end_time.value, lines[st.i]>>)])

UnstructuredLoop(lines, i, current_time) ==
    Let(Repeat(LAMBDA st : UnstructuredBody(lines, st), Len(lines) - i + 1,
               [i |-> i, raised |-> FALSE, current_time |-> current_time,
                segments |-> <<>>]), LAMBDA st :
        IF st.raised THEN Raise ELSE Return(st.segments))

\* parse_transcription on the text that _clean_transcription_text returned
ParseCleaned(text) ==
    IF strip(text) = "" THEN Return(<<DEFAULT_SEGMENT>>)
    ELSE IF LooksLikeSrt(text) THEN Return(_parse_srt_format(text))
    ELSE Let(IF HasRange(text) THEN Return(RangeSegments(text, 1))
             ELSE SingleLoop(split(strip(text)), 1, "", ""), LAMBDA found :
             IF found.raised THEN Raise
             ELSE IF found.value # <<>> THEN Return(found.value)
             ELSE Let(NonBlankLines(split(strip(text)), 1), LAMBDA lines :
                  Let(UnstructuredLoop(lines, 1, "00:00:00,000"), LAMBDA laid :
                      IF laid.raised THEN Raise
                      ELSE IF laid.value # <<>> THEN Return(laid.value)
                      ELSE Return(<<(<<"00:00:00,000", "00:00:10,000", strip(text)>>)>>))))

parse_transcription(text) ==
    Let(_clean_transcription_text(text), LAMBDA cleaned_text :
        IF cleaned_text.raised THEN Raise ELSE ParseCleaned(cleaned_text.value))

\* mutant: a block ends with its caption line, without the blank line
Render_no_blank_line(cleaned_segments, i) ==
    Repeat(LAMBDA st : [i |-> st.i + 1,
                        srt_content |-> st.srt_content
                            \o str(st.i) \o NL
                            \o cleaned_segments[st.i][1] \o " --> "
                            \o cleaned_segments[st.i][2] \o NL
                            \o cleaned_segments[st.i][3] \o NL],
           Len(cleaned_segments) - i + 1, [i |-> i, srt_content |-> ""]).srt_content

\* mutant: enumerate without its start, the blocks are numbered from 0
Render_from_zero(cleaned_segments, i) ==
    Repeat(LAMBDA st : [i |-> st.i + 1,
                        srt_content |-> st.srt_content
                            \o str(st.i - 1) \o NL
                            \o cleaned_segments[st.i][1] \o " --> "
                            \o cleaned_segments[st.i][2] \o NL
                            \o cleaned_segments[st.i][3] \o NL \o NL],
           Len(cleaned_segments) - i + 1, [i |-> i, srt_content |-> ""]).srt_content

\* the for loop of convert_to_srt over enumerate(cleaned_segments, 1)
Render(cleaned_segments, i) ==
    Repeat(LAMBDA st : [i |-> st.i + 1,
                        srt_content |-> st.srt_content
                            \o str(st.i) \o NL
                            \o cleaned_segments[st.i][1] \o " --> "
                            \o cleaned_segments[st.i][2] \o NL
                            \o cleaned_segments[st.i][3] \o NL \o NL],
           Len(cleaned_segments) - i + 1, [i |-> i, srt_content |-> ""]).srt_content

DEFAULT_SRT == "1\n00:00:00,000 --> 00:00:10,000\n" \o NO_SUBTITLE_TEXT \o "\n\n"

ERROR_SRT == "1\n00:00:00,000 --> 00:00:10,000\n" \o CONVERSION_ERROR_TEXT \o "\n\n"

\* the try block of convert_to_srt, given what parse_transcription returned
RenderSegments(segments) ==
    Let(Render(_extract_real_subtitles(segments), 1), LAMBDA srt_content :
        IF srt_content = "" THEN DEFAULT_SRT ELSE srt_content)

\* mutant: no except clause, the exception leaves convert_to_srt
convert_to_srt_no_except(transcription_text) ==
    Let(parse_transcription(transcription_text), LAMBDA result :
        IF result.raised THEN Raise
        ELSE Return(RenderSegments(result.value)))

\* mutant: the except clause returns the default content, not the error
\* placeholder
convert_to_srt_default_on_error(transcription_text) ==
    Let(parse_transcription(transcription_text), LAMBDA result :
        IF result.raised THEN Return(DEFAULT_SRT)
        ELSE Return(RenderSegments(result.value)))

\* the except clause turns every exception into the error placeholder
convert_to_srt(transcription_text) ==
    Let(parse_transcription(transcription_text), LAMBDA result :
        IF result.raised THEN Return(ERROR_SRT)
        ELSE Return(RenderSegments(result.value)))

(***************************************************************************)
(* save_srt_file.  The file system is a record: dirs is the set of the     *)
(* directories that exist, files maps the absolute path of every file to   *)
(* its content.  A fault names the call of the operating system that       *)
(* fails during one save, "none" when none does.                           *)
(***************************************************************************)
Cwd == "/work"

Faults == {"none", "makedirs", "open", "write"}

\* os.path.abspath
abspath(path) == IF At(path, 1) = "/" THEN path ELSE Cwd \o "/" \o path

\* os.path.dirname
dirname(path) == Slice(path, 1, Last(LAMBDA n : At(path, n) = "/", 2, Len(path)) - 1)

\* raise IOError(error_msg)
RaiseIOError == [raised |-> TRUE, value |-> "IOError"]

\* the content that is written: the default content for an empty one
ContentToSave(srt_content) ==
    IF srt_content = ""
    THEN "1\n00:00:00,000 --> 00:00:10,000\n" \o NO_SUBTITLE_TEXT \o "\n\n"
    ELSE srt_content

\* file f of the file system fs holds content
WithFile(fs, f, content) ==
    [fs EXCEPT !.files = [p \in DOMAIN fs.files \cup {f} |->
                             IF p = f THEN content ELSE fs.files[p]]]

\* os.makedirs(..., exist_ok=True) has run for output_path
WithDir(fs, output_path) ==
    [fs EXCEPT !.dirs = fs.dirs \cup {dirname(abspath(output_path))}]

\* mutant: a failure is printed and the path is returned all the same
save_srt_file_swallows(srt_content, output_path, fault, fs) ==
    IF fault = "makedirs" THEN [result |-> Return(output_path), fs |-> fs]
    ELSE IF fault = "open"
         THEN [result |-> Return(output_path), fs |-> WithDir(fs, output_path)]
    ELSE IF fault = "write"
         THEN [result |-> Return(output_path),
               fs |-> WithFile(WithDir(fs, output_path), abspath(output_path), "")]
    ELSE [result |-> Return(output_path),
          fs |-> WithFile(WithDir(fs, output_path), abspath(output_path),
                          ContentToSave(srt_content))]

\* The call and the file system it leaves.  open(..., "w") empties the file
\* before anything is written, so a failed write leaves an empty file.
save_srt_file(srt_content, output_path, fault, fs) ==
    IF fault = "makedirs" THEN [result |-> RaiseIOError, fs |-> fs]
    ELSE IF fault = "open"
         THEN [result |-> RaiseIOError, fs |-> WithDir(fs, output_path)]
    ELSE IF fault = "write"
         THEN [result |-> RaiseIOError,
               fs |-> WithFile(WithDir(fs, output_path), abspath(output_path), "")]
    ELSE [result |-> Return(output_path),
          fs |-> WithFile(WithDir(fs, output_path), abspath(output_path),
                          ContentToSave(srt_content))]

(***************************************************************************)
(* GeminiAPIHandler of src/utils/gemini_api.py.  The service is the        *)
(* environment: what a poll of the file state or a generation request      *)
(* gives is its choice.  A frame holds the local names of a call.          *)
(***************************************************************************)
\* an exception of the given type leaves the function
Raised(type) == [raised |-> TRUE, value |-> type]

\* the states of an uploaded file that a poll can report
FileStates == {"PROCESSING", "ACTIVE", "FAILED"}

\* what one poll gives: a state, a file_info without a state field, or an
\* exception of client.files.get
PollOutcomes == FileStates \cup {"no state", "error"}

\* the client of check_file_status: "usable" when Client was imported and
\* constructed and has files.get, "unusable" when it is None or has no
\* files.get, "no import" when the import raised ImportError
Clients == {"usable", "unusable", "no import"}

IdleStatus ==
    [pc |-> "idle", max_retries |-> 0, attempt |-> 0, client |-> "", observed |-> {},
     result |-> FALSE]

\* return of check_file_status
StatusReturn(st, result) == [st EXCEPT !.pc = "returned", !.result = result]

\* the entry of check_file_status, up to the first round of a loop: a loop
\* over range(0) has no round, and an ImportError skips the polling loop
check_file_status(max_retries, client) ==
    IF max_retries = 0
    THEN StatusReturn([IdleStatus EXCEPT !.client = client], FALSE)
    ELSE [IdleStatus EXCEPT !.pc = IF client = "no import" THEN "wait" ELSE "poll",
                            !.max_retries = max_retries, !.client = client]

\* the polling loop goes to its next round; after its last round the
\* waiting loop starts
NextPoll(st) ==
    IF st.attempt + 1 < st.max_retries THEN [st EXCEPT !.attempt = @ + 1]
    ELSE [st EXCEPT !.pc = "wait", !.attempt = 0]

\* one round of the polling loop, given what the poll gives
PollRound(st, outcome) ==
    IF st.client = "usable" /\ outcome = "error" THEN NextPoll(st)
    ELSE IF st.client = "usable" /\ outcome = "ACTIVE"
         THEN StatusReturn([st EXCEPT !.observed = @ \cup {outcome}], TRUE)
    ELSE IF st.client = "usable" /\ outcome = "FAILED"
         THEN StatusReturn([st EXCEPT !.observed = @ \cup {outcome}], FALSE)
    ELSE Let(IF st.client = "usable" /\ outcome \in FileStates
             THEN [st EXCEPT !.observed = @ \cup {outcome}] ELSE st, LAMBDA seen :
             IF seen.attempt >= seen.max_retries \div 2 THEN StatusReturn(seen, TRUE)
             ELSE NextPoll(seen))

\* one round of the waiting loop; after its last round the function
\* returns False
WaitRound(st) ==
    IF st.attempt >= st.max_retries \div 2 THEN StatusReturn(st, TRUE)
    ELSE IF st.attempt + 1 < st.max_retries THEN [st EXCEPT !.attempt = @ + 1]
    ELSE StatusReturn(st, FALSE)

\* max_retries of check_file_status: its default, and the argument of the
\* call after a refused attempt
DefaultMaxRetries == 12

RecheckMaxRetries == 3

max_attempts == 5

\* what the steps of process_video before the attempts can give
SetupOutcomes == {"missing", "OSError", "Exception", "uploaded with id", "uploaded"}

\* how one call of generate_content, or the import before it, can end
MethodOutcomes == {"ok", "AttributeError", "Exception"}

\* the messages of the exception of a failed attempt
ErrorMessages == {"not in an ACTIVE state", "400 Bad Request", "500"}

\* the responses of generate_content: None, a text, an empty text with a
\* candidate that has a text part, an empty text without such a candidate,
\* and a response whose text accessor raises ValueError
Responses == {"none", "text", "candidate", "blank", "text raises"}

TranscriptText == "1\n00:00:01,000 --> 00:00:05,000\nHi\n\n"

CandidateText == "00:00:02,000 Hi"

\* mutant: the exception leaves process_video as it is
WrapError_unwrapped(type) == Raised(type)

\* the except clause around the body of process_video: whatever is raised
\* inside leaves the function as ValueError
WrapError(type) == Raised("ValueError")

\* the four ways of making the request, tried in turn: the second is tried
\* when the first raises ImportError or AttributeError, the third and the
\* fourth when the one before raises anything.  TRUE when a response came.
RequestSucceeds(methods) ==
    \/ methods[1] = "ok"
    \/ /\ methods[1] = "AttributeError"
       /\ \E m \in 2..4 : methods[m] = "ok"

\* the verification of the response, after the loop of the attempts
VerifyResponse(response) ==
    IF response = "none" THEN WrapError("ValueError")
    ELSE IF response = "text raises" THEN WrapError("ValueError")
    ELSE IF response = "text" THEN Return(TranscriptText)
    ELSE IF response = "candidate" THEN Return(CandidateText)
    ELSE WrapError("ValueError")

IdleVideo ==
    [pc |-> "idle", attempt |-> 0, attempts |-> 0, has_id |-> FALSE, error_msg |-> "",
     resume |-> "", result |-> Return("")]

NoHandler == [name |-> "", status |-> IdleStatus, video |-> IdleVideo]

\* process_video up to the loop of the attempts: the check of the path, the
\* upload, and the call of check_file_status when the file has an id
process_video(setup) ==
    IF setup = "missing"
    THEN [NoHandler EXCEPT !.name = "process_video", !.video.pc = "raised",
                           !.video.result = Raised("ValueError")]
    ELSE IF setup \in {"OSError", "Exception"}
         THEN [NoHandler EXCEPT !.name = "process_video", !.video.pc = "raised",
                                !.video.result = WrapError(setup)]
    ELSE IF setup = "uploaded with id"
         THEN [NoHandler EXCEPT !.name = "process_video", !.video.pc = "status",
                                !.video.has_id = TRUE, !.video.resume = "attempt"]
    ELSE [NoHandler EXCEPT !.name = "process_video", !.video.pc = "attempt"]

\* one round of the loop of the attempts
AttemptRound(v, methods, error_msg, response) ==
    IF RequestSucceeds(methods)
    THEN Let(VerifyResponse(response), LAMBDA result :
             [v EXCEPT !.attempts = @ + 1, !.result = result,
                       !.pc = IF result.raised THEN "raised" ELSE "returned"])
    ELSE [v EXCEPT !.attempts = @ + 1, !.error_msg = error_msg,
                   !.pc = IF error_msg = "not in an ACTIVE state" /\ v.has_id
                          THEN "status" ELSE "backoff",
                   !.resume = "backoff"]

\* the end of the except clause of an attempt: after the wait, the last
\* attempt raises ValueError and any other is followed by the next
BackoffRound(v) ==
    IF v.attempt = max_attempts - 1
    THEN [v EXCEPT !.pc = "raised", !.result = WrapError("ValueError")]
    ELSE [v EXCEPT !.pc = "attempt", !.attempt = @ + 1]

\* check_file_status has returned into the call of process_video that
\* called it
Resume(h) ==
    IF h.name = "process_video" /\ h.status.pc = "returned" /\ h.video.pc = "status"
    THEN [h EXCEPT !.video.pc = h.video.resume]
    ELSE h

(***************************************************************************)
(* The state machine: a caller holds a text, calls convert_to_srt on it,   *)
(* and may feed the returned SRT text back as a fresh transcript.  After a  *)
(* conversion the caller may also call one of the other methods of the     *)
(* converter directly, on values of the conversion.                        *)
(***************************************************************************)
VARIABLES
    pc,                  \* "ready": a call is due; "done": it has returned;
                         \* "called": a direct call of a method has returned
    round,               \* how many times the result has been fed back
    transcription_text,  \* the argument of convert_to_srt
    joined,              \* cleaned_text as joined from cleaned_lines
    repaired,            \* cleaned_text after the timestamp repair
    cleaned,             \* what _clean_transcription_text did
    segments,            \* what parse_transcription did
    srt,                 \* what convert_to_srt did
    call,                \* the direct call: the method, its arguments, its result
    disk,                \* the file system
    calls,               \* the calls of convert_to_srt that run at the same time
    handler              \* the call of a method of GeminiAPIHandler: its frame

vars == <<pc, round, transcription_text, joined, repaired, cleaned, segments, srt, call,
          disk, self, calls, handler>>

NoCall == [name |-> "", args |-> <<>>, result |-> Return("")]

\* the lines the transcripts of the model are made of
LineVocabulary ==
    { "", " ", "1", "2", "Hi", "Hi 2",
      "00:00:01,000 --> 00:00:05,000",
      "00:00:01,000 --> 00:00:05,000 Hi",
      "00:00:02,000 Hi",
      "00:00:12,000 World",
      "01:02:03,000 Bye",
      "23:59:55,000 Late",
      "00:61:00,000 Hi",
      "01:02,000 Hi",
      "01:02,000 --> 01:05,000",
      "01:02,000 --> 01:05,000 Yo",
      GREET3,
      FENCE \o "srt",
      FENCE,
      "It sujeongi piryohageona not" }

\* the scenarios of the specification and some longer transcripts
ScenarioA == "1\n00:00:01,000 --> 00:00:05,000\nHello there\n\n2\n00:00:06,000 --> 00:00:10,000\nGoodbye\n\n"

ScenarioB == "00:00:02,000 Hello\n00:00:12,000 World\n"

ScenarioC == ""

ScenarioD == "Understood, here are the subtitles:\n" \o FENCE \o "srt\n1\n00:00:00,000 --> 00:00:03,000\nHi\n\n" \o FENCE

ScenarioDCatalog == GREET3 \o "\n" \o FENCE \o "srt\n1\n00:00:00,000 --> 00:00:03,000\nHi\n\n" \o FENCE

ScenarioE == "Just some plain text\nwith two lines"

Scenarios ==
    { ScenarioA, ScenarioB, ScenarioC, ScenarioD, ScenarioDCatalog, ScenarioE,
      " ", "  \n ", "\n\n\n",
      "01:02:03,000 Bye",
      "Hi 2\n01:02,000 --> 01:05,000\nHi\nthere\n01:06,000 --> 01:09,000 Bye",
      "00:00:01,000 1\n00:00:02,000 Hi\nthere\n00:00:03,000 2\n00:00:04,000 Yo",
      "a\nb\nc\nd\ne\nf\ng\nh\ni\nj\nk",
      "12:34,567:89,012 Hi",
      "00:00:58,250 Hi",
      "01:02,000 --> 01:05,000 Yo 12:34,567:89,012",
      "01:02,000 --> 01:05,000 Yo\n01:06,000 --> 01:09,000 7",
      "01:02,000 --> 01:05,000 --> 01:08,000 Hi",
      GREET2_HEAD \o " 00:61:00,000 Hi\n00:00:02,000 Yo" }

Transcript(lines) == join([i \in 1..Len(lines) |-> lines[i]])

\* the paths the caller saves to, and the file system it starts with: one
\* of the paths is an existing file, the directory of the other is missing
Paths == {"a.srt", "/work/out/b.srt"}

InitialDisk == [dirs |-> {"/work"}, files |-> [p \in {"/work/a.srt"} |-> "old"]]

Inputs ==
    Scenarios \cup
    { Transcript(lines) : lines \in UNION { [1..n -> LineVocabulary] : n \in 1..MaxLines } }

Init ==
    /\ self = PatternCatalog
    /\ calls = <<>>
    /\ handler = NoHandler
    /\ pc = "ready"
    /\ round = 0
    /\ transcription_text \in Inputs
    /\ joined = ""
    /\ repaired = ""
    /\ cleaned = Return("")
    /\ segments = Return(<<>>)
    /\ srt = Return("")
    /\ call = NoCall
    /\ disk = InitialDisk

\* one call of convert_to_srt, with the values its stages compute
Convert ==
    /\ pc = "ready"
    /\ pc' = "done"
    /\ joined' = (IF transcription_text = "" THEN "" ELSE CleanLines(transcription_text))
    /\ repaired' = fix_timestamp(joined')
    /\ cleaned' = _clean_transcription_text(transcription_text)
    /\ segments' = parse_transcription(transcription_text)
    /\ srt' = convert_to_srt(transcription_text)
    /\ UNCHANGED <<round, transcription_text, call, disk, self, calls, handler>>

\* the caller passes the SRT text it got as the next transcript
FeedBack ==
    /\ pc = "done"
    /\ ~srt.raised
    /\ round < MaxRounds
    /\ Len(srt.value) <= MaxFedBack
    /\ pc' = "ready"
    /\ round' = round + 1
    /\ transcription_text' = srt.value
    /\ UNCHANGED <<joined, repaired, cleaned, segments, srt, call, disk, self, calls, handler>>

\* _clean_transcription_text is called on the text it returned
CleanAgain ==
    /\ pc = "done"
    /\ ~cleaned.raised
    /\ pc' = "called"
    /\ call' = [name |-> "_clean_transcription_text", args |-> <<cleaned.value>>,
                result |-> _clean_transcription_text(cleaned.value)]
    /\ UNCHANGED <<round, transcription_text, joined, repaired, cleaned, segments, srt, disk, self, calls, handler>>

\* the numbers of seconds of the direct calls of _add_seconds_to_timestamp
SecondsToAdd == {10, 3605}

\* _add_seconds_to_timestamp is called on the timestamp the text starts with
AddSeconds ==
    /\ pc = "done"
    /\ MatchAt(transcription_text, 1, timestamp_pattern)
    /\ pc' = "called"
    /\ \E seconds \in SecondsToAdd :
          call' = [name |-> "_add_seconds_to_timestamp",
                   args |-> <<Slice(transcription_text, 1, 12), seconds>>,
                   result |-> _add_seconds_to_timestamp(Slice(transcription_text, 1, 12),
                                                        seconds)]
    /\ UNCHANGED <<round, transcription_text, joined, repaired, cleaned, segments, srt, disk, self, calls, handler>>

\* save_srt_file is called with the text that convert_to_srt returned, or
\* with an empty content
Save ==
    /\ pc = "done"
    /\ ~srt.raised
    /\ pc' = "called"
    /\ \E srt_content \in {srt.value, ""}, output_path \in Paths, fault \in Faults :
          /\ call' = [name |-> "save_srt_file", args |-> <<srt_content, output_path>>,
                      fault |-> fault,
                      result |-> save_srt_file(srt_content, output_path, fault, disk).result]
          /\ disk' = save_srt_file(srt_content, output_path, fault, disk).fs
    /\ UNCHANGED <<round, transcription_text, joined, repaired, cleaned, segments, srt,
                 self, calls, handler>>

Next == Convert \/ FeedBack \/ CleanAgain \/ AddSeconds \/ Save

Spec == Init /\ [][Next]_vars

\* ---------------------------------------------------------------------------
\* Several callers on one instance.  Each call of convert_to_srt keeps its
\* text, its cleaned text, its segments and its SRT text in local names of its
\* own frame; the callers share the instance, and every stage reads the
\* patterns of the instance when it runs.  The stages of different calls
\* interleave in any order.
\* ---------------------------------------------------------------------------
Callers == 1..MaxCallers

SharedInputs ==
    {"", "Hi\nYo", "00:00:02,000 Hi", "01:02,000 --> 01:05,000\nHi", "00:61:00,000 Hi"}

\* the attributes of the instance after a stage of a call: no method assigns
\* to an attribute
SelfAfterCall_rewrites_pattern(instance, text) ==
    IF text = "" THEN instance
    ELSE [instance EXCEPT !.timestamp_pattern = instance.invalid_timestamp_pattern]

SelfAfterCall(instance, text) == instance

NewCall(text) ==
    [pc |-> "ready", transcription_text |-> text, cleaned_text |-> Return(""),
     segments |-> Return(<<>>), srt_content |-> Return("")]

InitShared ==
    /\ self = PatternCatalog
    /\ handler = NoHandler
    /\ calls \in [Callers -> {NewCall(text) : text \in SharedInputs}]
    /\ pc = "shared"
    /\ round = 0
    /\ transcription_text = ""
    /\ joined = ""
    /\ repaired = ""
    /\ cleaned = Return("")
    /\ segments = Return(<<>>)
    /\ srt = Return("")
    /\ call = NoCall
    /\ disk = InitialDisk

CallClean(c) ==
    /\ calls[c].pc = "ready"
    /\ calls' = [calls EXCEPT ![c].pc = "cleaned",
                              ![c].cleaned_text =
                                  _clean_transcription_text(calls[c].transcription_text)]
    /\ self' = SelfAfterCall(self, calls[c].transcription_text)
    /\ UNCHANGED <<pc, round, transcription_text, joined, repaired, cleaned, segments, srt,
                   call, disk, handler>>

CallParse(c) ==
    /\ calls[c].pc = "cleaned"
    /\ calls' = [calls EXCEPT ![c].pc = "parsed",
                              ![c].segments =
                                  IF calls[c].cleaned_text.raised THEN Raise
                                  ELSE ParseCleaned(calls[c].cleaned_text.value)]
    /\ self' = SelfAfterCall(self, calls[c].transcription_text)
    /\ UNCHANGED <<pc, round, transcription_text, joined, repaired, cleaned, segments, srt,
                   call, disk, handler>>

CallRender(c) ==
    /\ calls[c].pc = "parsed"
    /\ calls' = [calls EXCEPT ![c].pc = "done",
                              ![c].srt_content =
                                  IF calls[c].segments.raised THEN Return(ERROR_SRT)
                                  ELSE Return(RenderSegments(calls[c].segments.value))]
    /\ self' = SelfAfterCall(self, calls[c].transcription_text)
    /\ UNCHANGED <<pc, round, transcription_text, joined, repaired, cleaned, segments, srt,
                   call, disk, handler>>

NextShared == \E c \in Callers : CallClean(c) \/ CallParse(c) \/ CallRender(c)

SpecShared == InitShared /\ [][NextShared]_vars

\* ---------------------------------------------------------------------------
\* The calls of GeminiAPIHandler.  A caller calls check_file_status or
\* process_video; the rounds of their loops are separated by time.sleep and
\* by the requests to the service, and each round is a step.
\* ---------------------------------------------------------------------------
InitGemini ==
    /\ self = PatternCatalog
    /\ calls = <<>>
    /\ handler = NoHandler
    /\ pc = "gemini"
    /\ round = 0
    /\ transcription_text = ""
    /\ joined = ""
    /\ repaired = ""
    /\ cleaned = Return("")
    /\ segments = Return(<<>>)
    /\ srt = Return("")
    /\ call = NoCall
    /\ disk = InitialDisk

ConverterUnchanged ==
    UNCHANGED <<pc, round, transcription_text, joined, repaired, cleaned, segments, srt,
                call, disk, self, calls>>

\* check_file_status is called by a caller of its own
CallCheckFileStatus ==
    /\ handler.name = ""
    /\ \E max_retries \in (0..MaxRetries) \cup {DefaultMaxRetries}, client \in Clients :
          handler' = [handler EXCEPT !.name = "check_file_status",
                                     !.status = check_file_status(max_retries, client)]
    /\ ConverterUnchanged

\* one round of the polling loop, in a call of its own or under process_video
PollFile ==
    /\ handler.status.pc = "poll"
    /\ \E outcome \in PollOutcomes :
          handler' = Resume([handler EXCEPT !.status = PollRound(@, outcome)])
    /\ ConverterUnchanged

\* one round of the waiting loop
WaitForFile ==
    /\ handler.status.pc = "wait"
    /\ handler' = Resume([handler EXCEPT !.status = WaitRound(@)])
    /\ ConverterUnchanged

CallProcessVideo ==
    /\ handler.name = ""
    /\ \E setup \in SetupOutcomes : handler' = process_video(setup)
    /\ ConverterUnchanged

\* process_video calls check_file_status: after the upload with the default
\* arguments, after an attempt that the service refused because the file is
\* not active with max_retries=3
CheckUploadedFile ==
    /\ handler.name = "process_video"
    /\ handler.video.pc = "status"
    /\ handler.status.pc \in {"idle", "returned"}
    /\ \E client \in Clients :
          handler' = Resume([handler EXCEPT !.status =
                         check_file_status(IF handler.video.resume = "attempt"
                                           THEN DefaultMaxRetries ELSE RecheckMaxRetries,
                                           client)])
    /\ ConverterUnchanged

Attempt ==
    /\ handler.name = "process_video"
    /\ handler.video.pc = "attempt"
    /\ \E methods \in [1..4 -> MethodOutcomes], error_msg \in ErrorMessages,
          response \in Responses :
          handler' = [handler EXCEPT !.video = AttemptRound(@, methods, error_msg, response)]
    /\ ConverterUnchanged

Backoff ==
    /\ handler.name = "process_video"
    /\ handler.video.pc = "backoff"
    /\ handler' = [handler EXCEPT !.video = BackoffRound(@)]
    /\ ConverterUnchanged

NextGemini ==
    \/ CallCheckFileStatus
    \/ PollFile
    \/ WaitForFile
    \/ CallProcessVideo
    \/ CheckUploadedFile
    \/ Attempt
    \/ Backoff

SpecGemini == InitGemini /\ [][NextGemini]_vars

\* every round that can be taken is taken: the interpreter goes on, sleeps
\* end, and the service answers every request with a response or an error
SpecGeminiFair == SpecGemini /\ WF_vars(NextGemini)

(***************************************************************************)
(* Reading an SRT text back, for the properties: the blocks of a text that *)
(* follows the block grammar                                               *)
(*     <digits> NL <timestamp> " --> " <timestamp> NL <caption> NL NL      *)
(* where the caption is not empty and holds no blank line.                 *)
(***************************************************************************)
NoBlock == [ok |-> FALSE, index |-> "", start |-> "", end |-> "", text |-> "", stop |-> 0]

BlockAt(s, pos) ==
    LET d == SkipDigits(s, pos)
        q == FindLit(s, NL \o NL, d + 31)
    IN  IF /\ d > pos
           /\ At(s, d) = NL
           /\ MatchAt(s, d + 1, timestamp_pattern)
           /\ Slice(s, d + 13, d + 17) = " --> "
           /\ MatchAt(s, d + 18, timestamp_pattern)
           /\ At(s, d + 30) = NL
           /\ At(s, d + 31) # NL
           /\ q # 0
        THEN [ok |-> TRUE, index |-> Slice(s, pos, d - 1),
              start |-> Slice(s, d + 1, d + 12), end |-> Slice(s, d + 18, d + 29),
              text |-> Slice(s, d + 31, q - 1), stop |-> q + 2]
        ELSE NoBlock

ReadBody(s, st) ==
    IF st.pos = 0 THEN st
    ELSE IF st.pos > Len(s) THEN [st EXCEPT !.pos = 0]
    ELSE LET b == BlockAt(s, st.pos)
         IN  IF ~b.ok THEN [pos |-> 0, ok |-> FALSE, blocks |-> st.blocks]
             ELSE [pos |-> b.stop, ok |-> TRUE, blocks |-> Append(st.blocks, b)]

ReadBlocks(s, pos) ==
    LET st == Repeat(LAMBDA r : ReadBody(s, r), Len(s) \div 33 + 2,
                     [pos |-> pos, ok |-> TRUE, blocks |-> <<>>])
    IN  [ok |-> st.ok, blocks |-> st.blocks]

\* the cues <<start, end, text>> of an SRT text
Cues(s) == LET b == ReadBlocks(s, 1).blocks
           IN  [i \in 1..Len(b) |-> <<b[i].start, b[i].end, b[i].text>>]

\* HH:MM:SS,000 for a number of seconds, hours not wrapped
Clock(n) == Two(n \div 3600) \o ":" \o Two((n \div 60) % 60) \o ":" \o Two(n % 60)

SecondsOf(ts) == Num2(ts, 1) * 3600 + Num2(ts, 4) * 60 + Num2(ts, 7)

ValidFields(ts) == Num2(ts, 1) <= 23 /\ Num2(ts, 4) <= 59 /\ Num2(ts, 7) <= 59

TenLater(ts) == Clock(SecondsOf(ts) + 10) \o Slice(ts, 9, 12)

SentinelSrt == "1\n00:00:00,000 --> 00:00:10,000\n" \o NO_SUBTITLE_TEXT \o "\n\n"

Returned == pc = "done"

(***************************************************************************)
(* C1.  Whatever the text, convert_to_srt returns normally and what it     *)
(* returns is a non-empty string: no exception reaches the caller, also    *)
(* when an exception was raised inside the call.                           *)
(***************************************************************************)
C1_NeverRaisesNonEmpty == Returned => (~srt.raised /\ srt.value # "")

\* a call inside which the timestamp arithmetic raised, and which returned
C1_Witness == Returned /\ segments.raised /\ ~srt.raised /\ srt.value # ""

(***************************************************************************)
(* C2.  A text that is already well-formed SRT (blocks numbered 1..K, a    *)
(* range line, a caption that is not a number and holds no timestamp, a    *)
(* blank line) is returned as it is.                                       *)
(***************************************************************************)
IsWellFormedSrt(s) ==
    LET r == ReadBlocks(s, 1)
    IN  /\ r.ok
        /\ Len(r.blocks) >= 1
        /\ \A i \in 1..Len(r.blocks) :
              /\ r.blocks[i].index = str(i)
              /\ ~isdigit(r.blocks[i].text)
              /\ ~HasTimestamp(r.blocks[i].text)

C2_WellFormedSrtUnchanged ==
    (Returned /\ IsWellFormedSrt(transcription_text)) => srt.value = transcription_text

(***************************************************************************)
(* C3.  Round trip: converting a text that convert_to_srt returned gives   *)
(* this text again (the same cues with the same times and captions).       *)
(***************************************************************************)
C3_RoundTrip == (Returned /\ round > 0) => srt.value = transcription_text

(***************************************************************************)
(* C4.  When every line of the text is one timestamp HH:MM:SS,mmm followed *)
(* by a caption, there is one cue per line, from the timestamp of the line *)
(* to the timestamp of the next line, the last cue lasting ten seconds.    *)
(***************************************************************************)
IsStampedLine(line) ==
    /\ MatchAt(line, 1, timestamp_pattern)
    /\ ValidFields(Slice(line, 1, 12))
    /\ At(line, 13) = " "
    /\ strip(From(line, 13)) = From(line, 14)
    /\ From(line, 14) # ""
    /\ ~isdigit(From(line, 14))
    /\ SearchTpl(From(line, 13), invalid_timestamp_pattern, 1) = 0
    /\ FindLit(line, "-->", 1) = 0

\* the lines of a text, without the empty line after a final newline
LinesOf(s) ==
    LET l == split(s)
    IN  IF Len(l) > 1 /\ l[Len(l)] = "" THEN SubSeq(l, 1, Len(l) - 1) ELSE l

IsStampedText(s) ==
    /\ s # ""
    /\ \A i \in 1..Len(LinesOf(s)) : IsStampedLine(LinesOf(s)[i])

StampedCues(s) ==
    LET l == LinesOf(s)
    IN  [i \in 1..Len(l) |->
            <<Slice(l[i], 1, 12),
              IF i < Len(l) THEN Slice(l[i + 1], 1, 12) ELSE TenLater(Slice(l[i], 1, 12)),
              From(l[i], 14)>>]

C4_SingleTimestampLines ==
    (Returned /\ IsStampedText(transcription_text))
        => Cues(srt.value) = StampedCues(transcription_text)

(***************************************************************************)
(* C5.  A greeting line, an opening srt fence, one well-formed block and a *)
(* closing fence: the greeting and the fences are stripped and the output  *)
(* is that one cue, 00:00:00,000 --> 00:00:03,000 with the caption Hi.     *)
(***************************************************************************)
C5_GreetingAndFencesStripped ==
    (Returned /\ transcription_text \in {ScenarioD, ScenarioDCatalog})
        => srt.value = "1\n00:00:00,000 --> 00:00:03,000\nHi\n\n"

(***************************************************************************)
(* C6.  Every returned text is one or more blocks, each an index line, a   *)
(* line of two 12-character timestamps separated by " --> ", the caption   *)
(* and exactly one blank line.                                             *)
(***************************************************************************)
C6_BlockGrammar ==
    Returned => LET r == ReadBlocks(srt.value, 1)
                IN  r.ok /\ Len(r.blocks) >= 1

\* a returned text of several blocks, one of them with a caption of two lines
C6_Witness ==
    /\ Returned
    /\ LET r == ReadBlocks(srt.value, 1)
       IN  /\ r.ok
           /\ Len(r.blocks) >= 2
           /\ \E i \in 1..Len(r.blocks) : find(r.blocks[i].text, NL, 1) # 0

(***************************************************************************)
(* C7.  The index lines of the returned blocks are 1, 2, ..., K in this    *)
(* order, K >= 1, whatever numbers the text carried and however many of    *)
(* the extracted cues were discarded.                                      *)
(***************************************************************************)
C7_SequentialIndexes ==
    Returned => LET b == ReadBlocks(srt.value, 1).blocks
                IN  /\ Len(b) >= 1
                    /\ \A i \in 1..Len(b) : b[i].index = str(i)

\* several blocks are returned for a text that carried its own numbers,
\* after some of the extracted cues were discarded
C7_Witness ==
    /\ Returned
    /\ ~segments.raised
    /\ Len(ReadBlocks(srt.value, 1).blocks) >= 2
    /\ Len(ReadBlocks(srt.value, 1).blocks) < Len(segments.value)
    /\ IsWellFormedSrt(transcription_text)

(***************************************************************************)
(* C8.  When the text is empty or holds white space only, or is blank once *)
(* cleaned, the result is the one sentinel cue 00:00:00,000 -->            *)
(* 00:00:10,000 with the no-subtitles placeholder, and not the error       *)
(* placeholder.                                                            *)
(***************************************************************************)
C8_BlankGivesSentinel ==
    (Returned /\ (strip(transcription_text) = ""
                    \/ (~cleaned.raised /\ strip(cleaned.value) = "")))
        => (~srt.raised /\ srt.value = SentinelSrt)

\* a text of white space only, not empty, was converted
C8_Witness ==
    /\ Returned
    /\ transcription_text # ""
    /\ strip(transcription_text) = ""
    /\ srt.value = SentinelSrt

(***************************************************************************)
(* C9.  When the cleaned text holds no timestamp of either shape but has   *)
(* non-blank lines, every non-blank line is a cue, in order, the first     *)
(* from 00:00:00,000, each lasting ten seconds and starting where the      *)
(* previous one ends.                                                      *)
(***************************************************************************)
NoTimestampAtAll(s) ==
    /\ SearchTpl(s, timestamp_pattern, 1) = 0
    /\ SearchTpl(s, invalid_timestamp_pattern, 1) = 0

BackToBackCues(s) ==
    LET l == NonBlankLines(split(s), 1)
    IN  [i \in 1..Len(l) |->
            <<Clock(10 * (i - 1)) \o ",000", Clock(10 * i) \o ",000", l[i]>>]

C9_UnstructuredBackToBack ==
    (Returned /\ ~cleaned.raised /\ strip(cleaned.value) # ""
        /\ NoTimestampAtAll(cleaned.value))
        => /\ ~segments.raised
           /\ segments.value = BackToBackCues(cleaned.value)
           /\ Cues(srt.value) = BackToBackCues(cleaned.value)

\* a text of several plain lines was converted
C9_Witness ==
    /\ Returned
    /\ transcription_text = ScenarioE
    /\ Len(segments.value) = 2
    /\ Cues(srt.value)[2] = <<"00:00:10,000", "00:00:20,000", "with two lines">>

(***************************************************************************)
(* C10.  The timestamp repair changes only timestamps that lack the hour   *)
(* field: when every MM:SS,mmm in the text is the tail of a timestamp      *)
(* HH:MM:SS,mmm, the repair leaves the text as it is.                      *)
(***************************************************************************)
LacksHour(s, k) ==
    MatchAt(s, k, invalid_timestamp_pattern) /\ ~MatchAt(s, k - 3, timestamp_pattern)

C10_RepairOnlyShortTimestamps ==
    (Returned /\ \A k \in 1..Len(joined) : ~LacksHour(joined, k))
        => repaired = joined

(***************************************************************************)
(* C11.  The timestamp repair is total: once the repair has run, every     *)
(* MM:SS,mmm in the text has its hour field in front of it, and no         *)
(* MM:SS,mmm without an hour field is in the text that convert_to_srt      *)
(* returns.                                                                *)
(***************************************************************************)
NoShortTimestamp(s) == \A k \in 1..Len(s) : ~LacksHour(s, k)

C11_RepairTotal ==
    Returned => (NoShortTimestamp(repaired) /\ NoShortTimestamp(srt.value))

(***************************************************************************)
(* C12.  Cleaning is idempotent: _clean_transcription_text applied to a    *)
(* text that it returned gives this text again.                            *)
(***************************************************************************)
Called(name) == pc = "called" /\ call.name = name

C12_CleanIdempotent ==
    Called("_clean_transcription_text") => call.result = Return(call.args[1])

(***************************************************************************)
(* C13.  _add_seconds_to_timestamp(t, n) returns, for every t of the form  *)
(* HH:MM:SS,mmm, the timestamp n seconds after t: the milliseconds are     *)
(* those of t, seconds carry into minutes and minutes into hours, and the  *)
(* hours are not wrapped at 24.                                            *)
(***************************************************************************)
SecondsLater(ts, n) == Clock(SecondsOf(ts) + n) \o Slice(ts, 9, 12)

C13_AddSecondsExact ==
    Called("_add_seconds_to_timestamp")
        => call.result = Return(SecondsLater(call.args[1], call.args[2]))

(***************************************************************************)
(* C14.  In every text that convert_to_srt returns, the caption of each    *)
(* cue is not empty, is not a number, and holds no HH:MM:SS,mmm.           *)
(***************************************************************************)
C14_CaptionsAreClean ==
    Returned => /\ ReadBlocks(srt.value, 1).ok
                /\ \A i \in 1..Len(Cues(srt.value)) :
                      /\ Cues(srt.value)[i][3] # ""
                      /\ ~isdigit(Cues(srt.value)[i][3])
                      /\ ~HasTimestamp(Cues(srt.value)[i][3])

\* extraction found a cue whose text holds a timestamp, and the returned
\* text has cues of the transcript
C14_Witness ==
    /\ Returned
    /\ ~segments.raised
    /\ \E i \in 1..Len(segments.value) : HasTimestamp(segments.value[i][3])
    /\ srt.value \notin {SentinelSrt, ERROR_SRT}
    /\ Len(Cues(srt.value)) >= 1

(***************************************************************************)
(* C15.  When an exception is raised inside cleaning, extraction or        *)
(* rendering, convert_to_srt returns the one-cue error placeholder, index  *)
(* 1, 00:00:00,000 --> 00:00:10,000, the conversion-error caption and a    *)
(* blank line, and nothing of the failed run.                              *)
(***************************************************************************)
ErrorSrt == "1\n00:00:00,000 --> 00:00:10,000\n" \o CONVERSION_ERROR_TEXT \o "\n\n"

C15_ExceptionGivesErrorPlaceholder ==
    (Returned /\ (cleaned.raised \/ segments.raised)) => srt = Return(ErrorSrt)

\* the timestamp arithmetic of the cleaning raised on a minute field of 61
C15_Witness ==
    /\ Returned
    /\ cleaned.raised
    /\ FindLit(joined, "00:61:00,000", 1) # 0
    /\ srt = Return(ErrorSrt)

(***************************************************************************)
(* C16.  save_srt_file(content, path) either writes the content to path,   *)
(* creating the parent directory and overwriting an existing file, and     *)
(* returns path, or raises IOError: every failure of the directory         *)
(* creation or of the write reaches the caller as IOError.                 *)
(***************************************************************************)
\* the save returned its path, and the file at this path holds content
SavedAs(content) ==
    /\ call.result = Return(call.args[2])
    /\ dirname(abspath(call.args[2])) \in disk.dirs
    /\ abspath(call.args[2]) \in DOMAIN disk.files
    /\ disk.files[abspath(call.args[2])] = content

C16_SaveWritesOrRaises ==
    Called("save_srt_file")
        => IF call.fault = "none" THEN SavedAs(call.args[1])
           ELSE call.result = RaiseIOError

\* C16 as amended: an empty content is replaced by the one-cue sentinel SRT
\* before it is written
C16_SaveWritesOrRaisesAmended ==
    Called("save_srt_file")
        => IF call.fault = "none"
           THEN SavedAs(IF call.args[1] = "" THEN SentinelSrt ELSE call.args[1])
           ELSE call.result = RaiseIOError

\* the directory was created, then opening the file failed, and the caller
\* got IOError
C16_Witness ==
    /\ Called("save_srt_file")
    /\ call.fault = "open"
    /\ call.args[1] # ""
    /\ call.args[2] = "/work/out/b.srt"
    /\ "/work/out" \in disk.dirs
    /\ call.result = RaiseIOError

\* C17: the converter is stateless.  No stage of a call changes an attribute of
\* the instance, and however the stages of the calls on one instance
\* interleave, every finished call returns what convert_to_srt returns for
\* its own text on the instance as it was constructed.
C17_CallsDoNotInterfere ==
    /\ self = PatternCatalog
    /\ \A c \in DOMAIN calls :
          calls[c].pc = "done" =>
              calls[c].srt_content = convert_to_srt(calls[c].transcription_text)

\* two calls with different texts were in flight at once: the second was
\* cleaned while the first was between its stages, and both have finished
C17_Witness ==
    /\ DOMAIN calls = Callers
    /\ calls[1].pc = "done"
    /\ calls[2].pc = "done"
    /\ calls[1].transcription_text = "01:02,000 --> 01:05,000\nHi"
    /\ calls[2].transcription_text = "Hi\nYo"
    /\ calls[1].srt_content # calls[2].srt_content

\* C18: the strategies run in the order well-formed SRT, range-delimited,
\* single-timestamp, unstructured, and the first that matches decides.  The
\* cues are the back-to-back 10-second cues counted from 00:00:00,000, one
\* per non-blank line, only when the cleaned text holds no timestamp of any
\* recognised shape; a text with a timestamp range never gets such cues.
C18_UnstructuredOnlyWithoutTimestamps ==
    (Returned /\ ~cleaned.raised /\ ~segments.raised
        /\ segments.value = BackToBackCues(cleaned.value))
        => (NoTimestampAtAll(cleaned.value) /\ ~HasRange(cleaned.value))

\* C19: the final sanitizing pass keeps a cue whose text holds a timestamp
\* together with other text.  The timestamp is stripped from the text, and
\* when the rest is not empty the cue is in the output with its times and
\* the stripped text.
StrippedText(seg) == strip(RemoveTimestamps(seg[3]))

C19_EmbeddedTimestampStripped ==
    (Returned /\ ~segments.raised)
        => \A i \in DOMAIN segments.value :
              (HasTimestamp(segments.value[i][3]) /\ StrippedText(segments.value[i]) # "")
                  => \E j \in DOMAIN Cues(srt.value) :
                        Cues(srt.value)[j] = <<segments.value[i][1], segments.value[i][2],
                                               StrippedText(segments.value[i])>>

\* C20: when the cleaned text looks like well-formed SRT but no block of it
\* is valid, the cues returned are exactly the cues of the range-delimited
\* strategy on the same text: for each range, the text from the end of the
\* range to the next newline, digit-only captions dropped.
C20_SrtFallsThroughToRanges ==
    (Returned /\ ~cleaned.raised /\ LooksLikeSrt(cleaned.value)
        /\ BlockSegments(cleaned.value, 1) = <<>>)
        => segments = Return(RangeSegments(cleaned.value, 1))

\* C21: the range-delimited strategy.  The occurrences of a range are the
\* successive matches of a scan from left to right, each scan going on where
\* the previous match ended.  The cleaned text holds a range and is not taken
\* for SRT: every occurrence gives the cue of its two timestamps and of the
\* text between the end of the match and the next newline, in the order of
\* the occurrences, and an occurrence whose text is empty or a number gives
\* none.
RangeStarts(s) == {k \in 1..Len(s) : RangeEndAt(s, k) # 0}

\* the starts of the matches that a scan from left to right finds: a start
\* is skipped exactly when it lies inside a match that was found before it
RangeOccurrences(s) ==
    CHOOSE T \in SUBSET RangeStarts(s) :
        \A k \in RangeStarts(s) :
            (k \in T) <=> ~\E j \in T : j < k /\ k < RangeEndAt(s, j)

\* the text between the end of the match at k and the next newline
TextAfterRange(s, k) ==
    LET e == RangeEndAt(s, k)
        rest == {n \in e..Len(s) : At(s, n) = NL}
        n == IF rest = {} THEN Len(s) + 1 ELSE CHOOSE m \in rest : \A o \in rest : m <= o
    IN  Slice(s, e, n - 1)

IsCaption(text) == text # "" /\ \E n \in 1..Len(text) : At(text, n) \notin Digits

\* the text without the white space at its two ends
Trimmed(text) ==
    LET black == {n \in 1..Len(text) : At(text, n) \notin WhiteSpace}
    IN  IF black = {} THEN ""
        ELSE SubSeq(text, CHOOSE a \in black : \A b \in black : a <= b,
                          CHOOSE a \in black : \A b \in black : a >= b)

VerbatimRangeCues(s) ==
    LET T == RangeOccurrences(s)
        all == [i \in 1..Cardinality(T) |->
                   <<Slice(s, Nth(T, i), Nth(T, i) + 11), RangeGroup2(s, Nth(T, i)),
                     TextAfterRange(s, Nth(T, i))>>]
    IN  SelectSeq(all, LAMBDA cue : IsCaption(cue[3]))

TrimmedRangeCues(s) ==
    LET T == RangeOccurrences(s)
        all == [i \in 1..Cardinality(T) |->
                   <<Slice(s, Nth(T, i), Nth(T, i) + 11), RangeGroup2(s, Nth(T, i)),
                     Trimmed(TextAfterRange(s, Nth(T, i)))>>]
    IN  SelectSeq(all, LAMBDA cue : IsCaption(cue[3]))

RangeStrategyApplies ==
    Returned /\ ~cleaned.raised /\ HasRange(cleaned.value) /\ ~LooksLikeSrt(cleaned.value)

\* C21 as stated: the text of a cue is everything after the match, as it is
C21_RangeCuesVerbatim ==
    (RangeStrategyApplies /\ VerbatimRangeCues(cleaned.value) # <<>>)
        => segments = Return(VerbatimRangeCues(cleaned.value))

\* C21 as amended: the text of a cue is the text after the match without the
\* white space at its ends, and it is this text that is tested for being
\* empty or a number.  The loop of the strategy gives these cues, and they
\* are the cues that parse_transcription returns when there is one at least.
C21_RangeCuesTrimmed ==
    RangeStrategyApplies
        => /\ RangeSegments(cleaned.value, 1) = TrimmedRangeCues(cleaned.value)
           /\ (TrimmedRangeCues(cleaned.value) # <<>>
                  => segments = Return(TrimmedRangeCues(cleaned.value)))

\* two ranges were found, the text of the second is a number, and the one
\* cue returned is the cue of the first
C21_Witness ==
    /\ RangeStrategyApplies
    /\ Cardinality(RangeOccurrences(cleaned.value)) = 2
    /\ segments = Return(<<(<<"00:01:02,000", "00:01:05,000", "Yo">>)>>)

\* C22: sanitizing and rendering keep the order of the extractor.  The cues
\* of the returned text are the extracted cues whose text is not empty, is
\* not a number and holds no timestamp, in the order of extraction and with
\* their start, end and text as extracted; a cue equal to the cue before it
\* is emitted again.
PassesFilter(cue) ==
    /\ IsCaption(cue[3])
    /\ \A k \in 1..Len(cue[3]) : ~MatchAt(cue[3], k, "dd:dd:dd,ddd")

C22_OrderPreserved ==
    (Returned /\ ~segments.raised /\ SelectSeq(segments.value, PassesFilter) # <<>>)
        => Cues(srt.value) = SelectSeq(segments.value, PassesFilter)

\* two equal cues were extracted one after the other and both are in the
\* returned text
C22_Witness ==
    /\ Returned
    /\ ~segments.raised
    /\ Len(segments.value) = 2
    /\ segments.value[1] = segments.value[2]
    /\ Cues(srt.value) = segments.value

\* C23: the cleaning stage has no error conditions.  Whatever the text and
\* whatever the digits of its timestamps, _clean_transcription_text returns
\* a string and raises nothing, and the empty text gives the empty string.
C23_CleanNeverRaises ==
    Returned => /\ ~cleaned.raised
                /\ transcription_text = "" => cleaned.value = ""

\* C24: greeting removal touches only what matches a pattern of the catalog
\* from the start of a line.  A caption line that holds a phrase of the
\* catalog after other caption text, and none at its start, comes out of the
\* noise stripping as it went in.
CatalogPhrases == {GREET1_HEAD, GREET2_HEAD, GREET3, GREET4, GREET5_A, GREET5_B, GREET6}

\* one line of caption text: no newline, no white space at its ends, no
\* backtick, no timestamp, not a number
IsCaptionLine(s) ==
    /\ IsCaption(s)
    /\ Trimmed(s) = s
    /\ \A n \in 1..Len(s) : At(s, n) \notin {NL, BACKTICK}
    /\ \A n \in 1..Len(s) : ~MatchAt(s, n, "dd:dd,ddd")

PhraseOnlyMidSentence(s) ==
    /\ \E p \in CatalogPhrases : \E n \in 2..Len(s) : Slice(s, n, n + Len(p) - 1) = p
    /\ \A p \in CatalogPhrases : Slice(s, 1, Len(p)) # p

C24_MidSentencePhraseUntouched ==
    (Returned /\ IsCaptionLine(transcription_text)
        /\ PhraseOnlyMidSentence(transcription_text))
        => cleaned = Return(transcription_text)

\* C25: check_file_status returns True when the file reaches the state
\* ACTIVE and False otherwise.  It returns True only when a poll of the call
\* has reported ACTIVE, and a call whose polls have all gone by without
\* ACTIVE returns False.
C25_TrueOnlyWhenActive ==
    (handler.name = "check_file_status" /\ handler.status.pc = "returned")
        => (handler.status.result <=> "ACTIVE" \in handler.status.observed)

\* C26: process_video makes five attempts of the generation request at
\* most, and every call ends: it returns a text that is not empty, or it
\* raises ValueError.  It returns no empty string, and no exception of
\* another type leaves it.
VideoEnded == handler.video.pc \in {"returned", "raised"}

VideoOutcomeAllowed ==
    /\ handler.video.attempts <= 5
    /\ handler.video.pc = "returned"
           => (~handler.video.result.raised /\ handler.video.result.value # "")
    /\ handler.video.pc = "raised" => handler.video.result = Raised("ValueError")
    /\ handler.video.pc \in {"idle", "status", "attempt", "backoff", "returned", "raised"}

IsPlainCaptionLine(s) ==
    /\ IsCaptionLine(s)
    /\ \A p \in CatalogPhrases : \A n \in 1..Len(s) : Slice(s, n, n + Len(p) - 1) # p

CleanedLines == {LinesOf(cleaned.value)[i] : i \in 1..Len(LinesOf(cleaned.value))}

C27_LookAheadKeepsCaptions ==
    (Returned /\ ~cleaned.raised)
        => \A i \in 1..Len(split(transcription_text)) :
              IsPlainCaptionLine(strip(split(transcription_text)[i]))
                  => strip(split(transcription_text)[i]) \in CleanedLines


\* the first timestamp of the line has a minute or a second field of 60 or more
HasBadFirstTimestamp(line) ==
    LET k == SearchTpl(line, timestamp_pattern, 1)
    IN  /\ k # 0
        /\ Num2(line, k + 3) >= 60 \/ Num2(line, k + 6) >= 60

NoInputLineInOutput ==
    \A i \in 1..Len(split(transcription_text)) :
        IsPlainCaptionLine(strip(split(transcription_text)[i]))
            => FindLit(srt.value, strip(split(transcription_text)[i]), 1) = 0

LoneBadTimestamp ==
    /\ Returned
    /\ ~HasRange(transcription_text)
    /\ ~HasRange(repaired)
    /\ \E i \in 1..Len(split(transcription_text)) :
          HasBadFirstTimestamp(split(transcription_text)[i])

\* C28 as stated: the input has lone timestamps, no range is left in the
\* repaired text, and on some line of the input the first timestamp has a
\* minute or a second field of 60 or more.  Then convert_to_srt returns the
\* conversion-error placeholder, and no caption line of the input is in it.
C28_BadFieldGivesErrorPlaceholder ==
    LoneBadTimestamp => (srt = Return(ErrorSrt) /\ NoInputLineInOutput)

LoneBadTimestampRepaired ==
    /\ Returned
    /\ ~HasRange(repaired)
    /\ \E i \in 1..Len(split(repaired)) : HasBadFirstTimestamp(split(repaired)[i])

\* C28 amended: the line with the timestamp is a line of the text that the
\* restructuring reads, which is the text after the noise stripping, the
\* line cleaning and the repair.  When this text has no range and on some
\* line of it the first timestamp has a minute or a second field of 60 or
\* more, convert_to_srt returns the conversion-error placeholder, and no
\* caption line of the input is in it.
C28_BadFieldAfterRepairGivesErrorPlaceholder ==
    LoneBadTimestampRepaired => (srt = Return(ErrorSrt) /\ NoInputLineInOutput)

\* a caption line without a timestamp stands next to the line with a minute
\* field of 61, and only the placeholder comes out
C28_Witness ==
    /\ LoneBadTimestampRepaired
    /\ \E i \in 1..Len(split(transcription_text)) :
          IsPlainCaptionLine(strip(split(transcription_text)[i]))
    /\ cleaned.raised
    /\ srt = Return(ErrorSrt)

\* C29: save_srt_file never writes an empty file.  After a call the file at
\* the path is not empty, and when the call returns the file holds the
\* one-cue sentinel SRT for an empty content and the given content otherwise.
C29_NeverAnEmptyFile ==
    Called("save_srt_file")
        => /\ abspath(call.args[2]) \in DOMAIN disk.files
                => disk.files[abspath(call.args[2])] # ""
           /\ ~call.result.raised
                => SavedAs(IF call.args[1] = "" THEN SentinelSrt ELSE call.args[1])

\* C30: a text that _clean_transcription_text returns and that holds a
\* timestamp holds a timestamp range as well, in a conversion and in a call
\* of the method on a text of its own.  Hence the single-timestamp loop of
\* parse_transcription, which reads a cleaned text without a range, never
\* appends a cue.
TimestampComesWithRange(text) == HasTimestamp(text) => HasRange(text)

SingleBranchTaken ==
    /\ Returned
    /\ ~cleaned.raised
    /\ strip(cleaned.value) # ""
    /\ ~LooksLikeSrt(cleaned.value)
    /\ ~HasRange(cleaned.value)

C30_TimestampImpliesRange ==
    /\ (Returned /\ ~cleaned.raised) => TimestampComesWithRange(cleaned.value)
    /\ (Called("_clean_transcription_text") /\ ~call.result.raised)
           => TimestampComesWithRange(call.result.value)
    /\ SingleBranchTaken
           => SingleLoop(split(strip(cleaned.value)), 1, "", "") = Return(<<>>)

\* the text had lone timestamps after the repair, the restructuring gave
\* every one of them an end time ten seconds later, and the cleaned text has
\* a range
C30_Witness ==
    /\ Returned
    /\ ~cleaned.raised
    /\ HasTimestamp(repaired)
    /\ ~HasRange(repaired)
    /\ HasTimestamp(cleaned.value)
    /\ HasRange(cleaned.value)

====
